---- MODULE Spec2Model ----
(***************************************************************************)
(* Model of rand_distr/src/dirichlet.rs: the Dirichlet distribution.       *)
(*                                                                         *)
(* f64 is modelled by a binary floating-point format of the IEEE-754       *)
(* shape (hidden bit, subnormals, round-to-nearest-even, overflow to       *)
(* infinity, NaN) at a reduced width: Precision significand bits and a     *)
(* largest exponent Emax, with Emin = 1 - Emax as in IEEE-754.  A finite   *)
(* value is held as a signed integer count of the smallest subnormal.      *)
(* The sign of zero is not modelled: no comparison in the code sees it.    *)
(*                                                                         *)
(* The state is one caller's view: the object d it holds, the last call    *)
(* it made with its arguments and result, the locals of the last sample    *)
(* call, and whether that call followed another sample call on d.          *)
(***************************************************************************)
EXTENDS Integers, Sequences, FiniteSets

VARIABLES d, op, arg, arg_alpha, arg_size, ret, g, sum, invacc, samples, resampled

vars == <<d, op, arg, arg_alpha, arg_size, ret, g, sum, invacc, samples, resampled>>

(* ------------------------------ bounds -------------------------------- *)

Precision == 6

Emax == 3

MaxLen == 2

(* --------------------------- the float format -------------------------- *)

RECURSIVE Pow2(_)
Pow2(n) == IF n <= 0 THEN 1 ELSE 2 * Pow2(n - 1)

\* the significands are the integers below 2^Precision
Radix == Pow2(Precision)

\* 1.0 counted in smallest subnormals: 2^(Precision - 1 - Emin)
OneU == Pow2(Precision + Emax - 2)

\* f64::MAX counted in smallest subnormals
MaxU == (Radix - 1) * Pow2(2 * Emax - 1)

Fin(v) == [cls |-> "fin", v |-> v]

NaN == [cls |-> "nan", v |-> 0]

\* +inf for sgn = 1, -inf for sgn = -1
Inf(sgn) == [cls |-> "inf", v |-> sgn]

Zero == Fin(0)

One == Fin(OneU)

Abs(n) == IF n < 0 THEN -n ELSE n

Sign(n) == IF n < 0 THEN -1 ELSE 1

\* the spacing of the floats around the exact value n/den
RECURSIVE Quantum(_, _, _)
Quantum(n, den, q) ==
    IF n < Radix * q * den THEN q ELSE Quantum(n, den, 2 * q)

\* round-to-nearest, ties-to-even, of the exact value sgn * n/den
Round(sgn, n, den) ==
    LET q  == Quantum(n, den, 1)
        dq == den * q
        f  == n \div dq
        r  == n % dq
        m  == IF 2 * r < dq THEN f
              ELSE IF 2 * r > dq THEN f + 1
              ELSE IF f % 2 = 0 THEN f ELSE f + 1
    IN IF m * q > MaxU THEN Inf(sgn)
       ELSE Fin(sgn * m * q)

\* f64 `x > 0.0`: false for NaN
GtZero(x) == x.cls # "nan" /\ x.v > 0

FNeg(x) == [x EXCEPT !.v = -x.v]

\* f64 `x + y`
FAdd(x, y) ==
    IF x.cls = "nan" \/ y.cls = "nan" THEN NaN
    ELSE IF x.cls = "inf" /\ y.cls = "inf"
         THEN (IF x.v = y.v THEN x ELSE NaN)
    ELSE IF x.cls = "inf" THEN x
    ELSE IF y.cls = "inf" THEN y
    ELSE Round(Sign(x.v + y.v), Abs(x.v + y.v), 1)

\* f64 `x * y`
FMul(x, y) ==
    IF x.cls = "nan" \/ y.cls = "nan" THEN NaN
    ELSE IF x.cls = "inf" \/ y.cls = "inf"
         THEN (IF x.v = 0 \/ y.v = 0 THEN NaN
               ELSE Inf(Sign(x.v) * Sign(y.v)))
    ELSE Round(Sign(x.v) * Sign(y.v), Abs(x.v) * Abs(y.v), OneU)

\* f64 `x / y`
FDiv(x, y) ==
    IF x.cls = "nan" \/ y.cls = "nan" THEN NaN
    ELSE IF x.cls = "inf"
         THEN (IF y.cls = "inf" THEN NaN
               ELSE Inf(x.v * Sign(y.v)))
    ELSE IF y.cls = "inf" THEN Zero
    ELSE IF y.v = 0
         THEN (IF x.v = 0 THEN NaN ELSE Inf(Sign(x.v)))
    ELSE Round(Sign(x.v) * Sign(y.v), Abs(x.v) * OneU, Abs(y.v))

(* ------------------------------ inputs --------------------------------- *)

\* element values handed to the constructors
AlphaVals == {NaN, Fin(-OneU), Zero, One, Fin(MaxU)}

\* the smallest normal float
MinNormal == Fin(Pow2(Precision - 1))

\* an ordinary value below 1.0 with an odd significand
OddVal == Fin((Radix - 5) * Pow2(Emax - 2))

\* values a Gamma draw can come out as: zero by underflow, the smallest
\* subnormal, the smallest normal, an ordinary value and the largest
\* finite value
DrawVals == {Zero, Fin(1), MinNormal, OddVal, Fin(MaxU)}

SeqsUpTo(S, n) == UNION {[1..k -> S] : k \in 0..n}

\* the vectors handed to Dirichlet::new
NewInputs == SeqsUpTo(AlphaVals, MaxLen)

\* the draws of one sample call on a vector of n elements
Draws(n) == [1..n -> DrawVals]

(* --------------------------- the constructors -------------------------- *)

NoObject == [some |-> FALSE, alpha |-> <<>>]

Ok(a) == [err |-> "Ok", obj |-> [some |-> TRUE, alpha |-> a]]

Err(e) == [err |-> e, obj |-> NoObject]

\* Dirichlet::new examining the elements before the length
new_elemsFirst(a) ==
    IF \E i \in 1..Len(a) : ~GtZero(a[i]) THEN Err("AlphaTooSmall")
    ELSE IF Len(a) < 2 THEN Err("AlphaTooShort")
    ELSE Ok(a)

\* Dirichlet::new testing `a[i] <= 0.0`, which lets NaN through
new_leZero(a) ==
    IF Len(a) < 2 THEN Err("AlphaTooShort")
    ELSE IF \E i \in 1..Len(a) : a[i].cls # "nan" /\ a[i].v <= 0
         THEN Err("AlphaTooSmall")
    ELSE Ok(a)

\* Dirichlet::new storing the vector back to front
new_reversed(a) ==
    IF Len(a) < 2 THEN Err("AlphaTooShort")
    ELSE IF \E i \in 1..Len(a) : ~GtZero(a[i]) THEN Err("AlphaTooSmall")
    ELSE Ok([i \in 1..Len(a) |-> a[Len(a) + 1 - i]])

\* Dirichlet::new; the loop returns at the first element that is not > 0.0,
\* and the error it returns does not tell which one that was
new(a) ==
    IF Len(a) < 2 THEN Err("AlphaTooShort")
    ELSE IF \E i \in 1..Len(a) : ~GtZero(a[i]) THEN Err("AlphaTooSmall")
    ELSE Ok(a)

\* vec![alpha; size - 1]
Replicate_short(x, size) == [i \in 1..(size - 1) |-> x]

\* vec![alpha; size]
Replicate(x, size) == [i \in 1..size |-> x]

\* Dirichlet::new_with_size testing the size before alpha
new_with_size_sizeFirst(x, size) ==
    IF size < 2 THEN Err("SizeTooSmall")
    ELSE IF ~GtZero(x) THEN Err("AlphaTooSmall")
    ELSE Ok(Replicate(x, size))

\* Dirichlet::new_with_size without the test of alpha
new_with_size_anyAlpha(x, size) ==
    IF size < 2 THEN Err("SizeTooSmall")
    ELSE Ok(Replicate(x, size))

\* Dirichlet::new_with_size
new_with_size(x, size) ==
    IF ~GtZero(x) THEN Err("AlphaTooSmall")
    ELSE IF size < 2 THEN Err("SizeTooSmall")
    ELSE Ok(Replicate(x, size))

(* ------------------------------ sampling ------------------------------- *)

\* Gamma::new(shape, scale): fails unless shape and scale are > 0
GammaNew(shape, scale) ==
    IF ~GtZero(shape) THEN "ShapeTooSmall"
    ELSE IF ~GtZero(scale) THEN "ScaleTooSmall"
    ELSE "Ok"

\* let n = self.alpha.len() - 1
sample_len_short(a) == Len(a) - 1

\* let n = self.alpha.len()
sample_len(a) == Len(a)

\* let mut samples = vec![0.0f64; n]
fresh_samples(n) == [i \in 1..n |-> Zero]

\* a sum that is carried over from the previous call
sum_stale == sum

\* let mut sum = 0.0f64
sum_init == Zero

\* sum = samples[i]
sum_step_assign(acc, x) == x

\* sum += samples[i]
sum_step(acc, x) == FAdd(acc, x)

\* let invacc = 1.0 / sum
invacc_of(acc) == FDiv(One, acc)

\* samples[i] -= invacc
scale_step_minus(x, inv) == FAdd(x, FNeg(inv))

\* samples[i] *= invacc
scale_step(x, inv) == FMul(x, inv)

\* the first loop: one Gamma draw per index, accumulated into sum
RECURSIVE GammaLoop(_, _, _, _, _, _)
GammaLoop(a, draws, n, i, s, acc) ==
    IF i > n THEN [panicked |-> FALSE, samples |-> s, sum |-> acc]
    ELSE IF GammaNew(a[i], One) # "Ok"
         THEN [panicked |-> TRUE, samples |-> s, sum |-> acc]
    ELSE LET s2 == [s EXCEPT ![i] = draws[i]]
         IN GammaLoop(a, draws, n, i + 1, s2, sum_step(acc, s2[i]))

\* the second loop: every element times invacc
RECURSIVE ScaleLoop(_, _, _, _)
ScaleLoop(s, n, i, inv) ==
    IF i > n THEN s
    ELSE ScaleLoop([s EXCEPT ![i] = scale_step(s[i], inv)], n, i + 1, inv)

\* Dirichlet::sample, with the Gamma draws of this call as draws
sample(a, draws) ==
    LET n  == sample_len(a)
        r1 == GammaLoop(a, draws, n, 1, fresh_samples(n), sum_init)
        inv == invacc_of(r1.sum)
    IN IF r1.panicked
       THEN [panicked |-> TRUE, samples |-> <<>>, sum |-> r1.sum, invacc |-> Zero]
       ELSE [panicked |-> FALSE, samples |-> ScaleLoop(r1.samples, n, 1, inv),
             sum |-> r1.sum, invacc |-> inv]

(* ------------------------------ the machine ---------------------------- *)

Init ==
    /\ d = NoObject
    /\ op = "none"
    /\ arg = <<>>
    /\ arg_alpha = Zero
    /\ arg_size = 0
    /\ ret = "none"
    /\ g = <<>>
    /\ sum = Zero
    /\ invacc = Zero
    /\ samples = <<>>
    /\ resampled = FALSE

\* let d = Dirichlet::new(values)
New ==
    /\ ret # "panic"
    /\ \E values \in NewInputs :
         \E r \in {new(values)} :
            /\ d' = r.obj
            /\ ret' = r.err
            /\ arg' = values
    /\ op' = "new"
    /\ arg_alpha' = Zero
    /\ arg_size' = 0
    /\ g' = <<>>
    /\ samples' = <<>>
    /\ sum' = Zero
    /\ invacc' = Zero
    /\ resampled' = FALSE

\* let d = Dirichlet::new_with_size(alpha, size)
NewWithSize ==
    /\ ret # "panic"
    /\ \E x \in AlphaVals, size \in 0..MaxLen :
         \E r \in {new_with_size(x, size)} :
            /\ d' = r.obj
            /\ ret' = r.err
            /\ arg_alpha' = x
            /\ arg_size' = size
    /\ op' = "new_with_size"
    /\ arg' = <<>>
    /\ g' = <<>>
    /\ samples' = <<>>
    /\ sum' = Zero
    /\ invacc' = Zero
    /\ resampled' = FALSE

\* d.sample(&mut rng)
Sample ==
    /\ ret # "panic"
    /\ d.some
    /\ \E draws \in Draws(Len(d.alpha)) :
         \E r \in {sample(d.alpha, draws)} :
            /\ g' = draws
            /\ ret' = IF r.panicked THEN "panic" ELSE "Ok"
            /\ samples' = r.samples
            /\ sum' = r.sum
            /\ invacc' = r.invacc
    /\ op' = "sample"
    /\ resampled' = (op = "sample")
    /\ UNCHANGED <<d, arg, arg_alpha, arg_size>>

Next == New \/ NewWithSize \/ Sample

Spec == Init /\ [][Next]_vars

(* ------------------------------ properties ----------------------------- *)

\* zero, negative, or NaN
NotPositive(x) == x.cls = "nan" \/ x.v <= 0

AllPositive(a) == \A i \in 1..Len(a) : ~NotPositive(a[i])

AllFinite(a) == \A i \in 1..Len(a) : a[i].cls = "fin"

\* the draws added up from left to right, starting at 0.0
RECURSIVE SumOf(_, _)
SumOf(a, k) == IF k = 0 THEN Zero ELSE FAdd(SumOf(a, k - 1), a[k])

\* the exact sum of the values of a finite vector, in smallest subnormals
RECURSIVE ExactSum(_, _)
ExactSum(a, k) == IF k = 0 THEN 0 ELSE ExactSum(a, k - 1) + a[k].v

\* the vector g[i] * (1.0 / sum of g)
Normalised(a) ==
    [i \in 1..Len(a) |-> FMul(a[i], FDiv(One, SumOf(a, Len(a))))]

\* the rounding a normalised vector of n elements can be off 1.0 by, in
\* smallest subnormals: (2 + n/2) machine epsilons for the n - 1 additions,
\* the division (in the subnormal range at worst) and the products, and
\* half a subnormal for each product
Tolerance(n) == (n + 4) * Pow2(Emax - 2) + n

SumsToOne(a) ==
    /\ AllFinite(a)
    /\ Abs(ExactSum(a, Len(a)) - OneU) <= Tolerance(Len(a))

Sampled == op = "sample" /\ ret = "Ok"

\* C1: Dirichlet::new returns Err(AlphaTooShort) for every vector of length
\* 0 or 1, whatever its elements are.
C1_TooShort ==
    (op = "new" /\ Len(arg) < 2) => (ret = "AlphaTooShort" /\ ~d.some)

C1_Witness ==
    op = "new" /\ Len(arg) = 1 /\ arg[1] = NaN /\ ret = "AlphaTooShort"

\* C2: Dirichlet::new returns Err(AlphaTooSmall) for every vector of length
\* >= 2 with an element, at any position, that is zero, negative or NaN, and
\* returns Ok only when every element is > 0.
C2_TooSmall ==
    (op = "new" /\ Len(arg) >= 2) =>
        /\ ~AllPositive(arg) => (ret = "AlphaTooSmall" /\ ~d.some)
        /\ AllPositive(arg) <=> ret = "Ok"

C2_Witness ==
    /\ op = "new" /\ Len(arg) = 2
    /\ arg[1] = One /\ arg[2] = NaN
    /\ ret = "AlphaTooSmall"

\* C3 as stated: new_with_size returns Err(AlphaTooSmall) whenever alpha is
\* not > 0 and Err(SizeTooSmall) whenever size < 2, and Ok only when
\* alpha > 0 and size >= 2.
C3_AsStated ==
    op = "new_with_size" =>
        /\ NotPositive(arg_alpha) => ret = "AlphaTooSmall"
        /\ arg_size < 2 => ret = "SizeTooSmall"
        /\ ret = "Ok" => (~NotPositive(arg_alpha) /\ arg_size >= 2)

\* C3 amended: new_with_size returns Err(AlphaTooSmall) whenever alpha is
\* not > 0, whatever the size; Err(SizeTooSmall) whenever alpha > 0 and
\* size < 2; and Ok exactly when alpha > 0 and size >= 2.
C3_AlphaBeforeSize ==
    op = "new_with_size" =>
        /\ NotPositive(arg_alpha) => ret = "AlphaTooSmall"
        /\ (~NotPositive(arg_alpha) /\ arg_size < 2) => ret = "SizeTooSmall"
        /\ ret = "Ok" <=> (~NotPositive(arg_alpha) /\ arg_size >= 2)
        /\ ret # "Ok" => ~d.some

C3_Witness ==
    /\ op = "new_with_size"
    /\ arg_alpha = Zero /\ arg_size = 1
    /\ ret = "AlphaTooSmall"

\* C4: when Dirichlet::new succeeds the stored vector is the input vector:
\* same length, same elements, same order.
C4_StoredUnchanged ==
    (op = "new" /\ ret = "Ok") =>
        /\ d.some
        /\ Len(d.alpha) = Len(arg)
        /\ \A i \in 1..Len(arg) : d.alpha[i] = arg[i]

C4_Witness ==
    /\ op = "new" /\ ret = "Ok"
    /\ arg = <<Fin(MaxU), One>>

\* C5: when new_with_size succeeds the stored vector has exactly size
\* elements, every one equal to alpha.
C5_SizeCopies ==
    (op = "new_with_size" /\ ret = "Ok") =>
        /\ d.some
        /\ Len(d.alpha) = arg_size
        /\ \A i \in 1..Len(d.alpha) : d.alpha[i] = arg_alpha

C5_Witness ==
    /\ op = "new_with_size" /\ ret = "Ok"
    /\ arg_alpha = Fin(MaxU) /\ arg_size = MaxLen

\* C6: each call to sample returns a vector as long as the stored
\* concentration vector.
C6_SameLength == Sampled => Len(samples) = Len(d.alpha)

C6_Witness == Sampled /\ Len(samples) = MaxLen /\ arg_size = 0

\* C7 as stated: when the Gamma draws have a non-zero finite sum, sample
\* returns x[i] = g[i] * (1 / sum) and the elements sum to 1.0 within
\* floating-point tolerance.
C7_AsStated ==
    (Sampled /\ sum.cls = "fin" /\ sum.v # 0) =>
        /\ samples = Normalised(g)
        /\ SumsToOne(samples)

\* C7 amended: when the Gamma draws have a non-zero finite sum whose
\* reciprocal 1.0 / sum is finite too, sample returns x[i] = g[i] * (1 / sum)
\* and the elements sum to 1.0 within floating-point tolerance.
C7_SumsToOne ==
    (Sampled /\ sum.cls = "fin" /\ sum.v # 0 /\ invacc.cls = "fin") =>
        /\ sum = SumOf(g, Len(g))
        /\ invacc = FDiv(One, sum)
        /\ samples = Normalised(g)
        /\ SumsToOne(samples)

C7_Witness ==
    /\ Sampled
    /\ g = <<OddVal, OddVal>>
    /\ invacc.cls = "fin"
    /\ samples[1] # g[1]

\* the exact product x * inv is not zero, and rounds to zero
UnderflowsToZero(x, inv) ==
    /\ x.cls = "fin" /\ inv.cls = "fin"
    /\ x.v # 0 /\ inv.v # 0
    /\ FMul(x, inv) = Zero

\* C8 as stated: every element of the returned vector is > 0.0 when each
\* Gamma draw is positive.
C8_AsStated ==
    (Sampled /\ AllFinite(g) /\ AllPositive(g)) =>
        \A i \in 1..Len(samples) : GtZero(samples[i])

\* C8 amended: when each Gamma draw is positive and finite, every element of
\* the returned vector is >= 0.0 and not NaN; it is > 0.0 when moreover the
\* sum of the draws is finite and no product g[i] * invacc underflows to
\* zero.
C8_Positive ==
    (Sampled /\ AllFinite(g) /\ AllPositive(g)) =>
        /\ \A i \in 1..Len(samples) :
               samples[i].cls # "nan" /\ samples[i].v >= 0
        /\ (sum.cls = "fin" /\ \A i \in 1..Len(g) : ~UnderflowsToZero(g[i], invacc))
               => \A i \in 1..Len(samples) : GtZero(samples[i])

C8_Witness ==
    /\ Sampled
    /\ g = <<MinNormal, OddVal>>
    /\ \A i \in 1..Len(samples) : GtZero(samples[i]) /\ samples[i].cls = "fin"

\* C9: sample never panics: every object a constructor returned holds only
\* values for which Gamma::new(alpha[i], 1.0) succeeds.
C9_NeverPanics ==
    /\ ret # "panic"
    /\ d.some => \A i \in 1..Len(d.alpha) : GammaNew(d.alpha[i], One) = "Ok"

C9_Witness == Sampled /\ resampled /\ arg_size >= 2

\* C10: a sample call leaves the stored concentration vector as it was, and
\* its output is a function of the Gamma draws of that call alone.
C10_Immutable ==
    [][op' = "sample" => (d' = d /\ samples' = Normalised(g'))]_vars

C10_Witness ==
    /\ Sampled /\ resampled
    /\ sum # Zero
    /\ Len(arg) = MaxLen

====
